---- MODULE Spec2Model ----
(***************************************************************************)
(* Reward engine of the productivity backend: chest classifier, loot       *)
(* sampler, inventory manager, streak tracker (services/                   *)
(* gamification_service.py) and the reward endpoints (routers/rewards.py)  *)
(* over the users/tasks tables, as seen through SQLAlchemy sessions.       *)
(***************************************************************************)
EXTENDS Integers, Sequences, FiniteSets, TLC

VARIABLES
    user,       \* a User object handed directly to the service functions
    call,       \* the last direct call of a service function and its result
    day,        \* facts of the current calendar day for `user`
    db_users,   \* table users: id -> row
    db_tasks,   \* table tasks: id -> row
    req,        \* in-flight HTTP requests: slot -> handler position and session
    resp        \* the last HTTP response sent

vars == <<user, call, day, db_users, db_tasks, req, resp>>

(***************************************************************************)
(* Bounds of the model                                                     *)
(***************************************************************************)
NumDrawRarities == 2   \* rarities whose items the direct calls draw from
MaxInventory == 3      \* direct calls stop once the list is longer than this
MaxStreak == 16        \* largest streak handed to the classifier
MaxDays == 3           \* largest days_without_tasks of a drawn User object
MaxTasks == 2          \* tasks due / completed within one day
MaxToday == 1          \* calendar days after the first one
MaxTaskRows == 1       \* rows of the table tasks
NumSampledLoot == 2    \* draws the random source of a request can yield
NumCollectRarities == 1 \* rarities a collecting user draws from

(***************************************************************************)
(* Loot catalog (static data)                                              *)
(***************************************************************************)
RarityOrder == <<"commun", "atypique", "rare", "épique", "exotique">>

LOOT_POOL ==
    [r \in {"commun", "atypique", "rare", "épique", "exotique"} |->
        CASE r = "commun"   -> <<"fish_blue", "small_plant", "bubble_small">>
          [] r = "atypique" -> <<"fish_yellow", "coral_blue", "plant_medium">>
          [] r = "rare"     -> <<"fish_red", "coral_large", "plant_big">>
          [] r = "épique"   -> <<"fish_shiny", "statue_small", "coral_pink">>
          [] r = "exotique" -> <<"fish_dragon", "coral_gold", "plant_glow">>]

\* one row of CHEST_PROBABILITIES, in hundredths (0.75 -> 75)
Probas(commun, atypique, rare, epique, exotique) ==
    [r \in {"commun", "atypique", "rare", "épique", "exotique"} |->
        CASE r = "commun"   -> commun
          [] r = "atypique" -> atypique
          [] r = "rare"     -> rare
          [] r = "épique"   -> epique
          [] r = "exotique" -> exotique]

\* mutant: the last weight of the epic row was lowered and the row no
\* longer adds up
CHEST_PROBABILITIES_epic_short ==
    [t \in {"basic", "rare", "epic", "exotic"} |->
        CASE t = "basic"  -> Probas(75, 15, 7, 2, 1)
          [] t = "rare"   -> Probas(50, 25, 15, 7, 3)
          [] t = "epic"   -> Probas(30, 25, 20, 15, 5)
          [] t = "exotic" -> Probas(5, 10, 20, 30, 35)]

CHEST_PROBABILITIES ==
    [t \in {"basic", "rare", "epic", "exotic"} |->
        CASE t = "basic"  -> Probas(75, 15, 7, 2, 1)
          [] t = "rare"   -> Probas(50, 25, 15, 7, 3)
          [] t = "epic"   -> Probas(30, 25, 20, 15, 10)
          [] t = "exotic" -> Probas(5, 10, 20, 30, 35)]

Range(s) == {s[i] : i \in 1..Len(s)}

\* `x in list` of Python
InList(x, s) == \E i \in 1..Len(s) : s[i] = x

\* LOOT_POOL.get(rarity, [])
PoolGet(rarity) == IF rarity \in DOMAIN LOOT_POOL THEN LOOT_POOL[rarity] ELSE <<>>

AllItems == UNION {Range(LOOT_POOL[r]) : r \in DOMAIN LOOT_POOL}

(***************************************************************************)
(* The JSON column users.inventory: NULL or a list                         *)
(***************************************************************************)
NoneInv == [is_none |-> TRUE, list |-> <<>>]
ListInv(s) == [is_none |-> FALSE, list |-> s]

(***************************************************************************)
(* Chest classifier                                                        *)
(***************************************************************************)
\* mutant: the thresholds are compared with > instead of >=
get_chest_type_gt(streak) ==
    IF streak > 14 THEN "exotic"
    ELSE IF streak > 7 THEN "epic"
    ELSE IF streak > 3 THEN "rare"
    ELSE "basic"

get_chest_type(streak) ==
    IF streak >= 14 THEN "exotic"
    ELSE IF streak >= 7 THEN "epic"
    ELSE IF streak >= 3 THEN "rare"
    ELSE "basic"

(***************************************************************************)
(* Inventory manager.  random.choice makes the result a set of outcomes.   *)
(* `assigned` tells whether the attribute user.inventory was set (the only *)
(* change of it that the session notices).                                 *)
(***************************************************************************)
AppendIfAbsent(s, x) == IF InList(x, s) THEN s ELSE Append(s, x)

\* mutant: the duplicate branch is gone, the drawn item is always appended
add_to_inventory_always_append(inventory, item_id, rarity) ==
    LET inv0 == IF inventory.is_none THEN <<>> ELSE inventory.list
    IN  {[inventory |-> ListInv(Append(inv0, item_id)), assigned |-> inventory.is_none,
          success |-> TRUE, item_id |-> item_id]}

\* mutant: a new item is put in front of the list and replaces its head
add_to_inventory_overwrite(inventory, item_id, rarity) ==
    LET inv0 == IF inventory.is_none THEN <<>> ELSE inventory.list
        available_items == SelectSeq(PoolGet(rarity), LAMBDA i : ~InList(i, inv0))
    IN  IF InList(item_id, inv0)
        THEN IF available_items # <<>>
             THEN {[inventory |-> ListInv(AppendIfAbsent(inv0, c)), assigned |-> inventory.is_none,
                    success |-> TRUE, item_id |-> c] : c \in Range(available_items)}
             ELSE {[inventory |-> ListInv(inv0), assigned |-> inventory.is_none,
                    success |-> FALSE, item_id |-> item_id]}
        ELSE {[inventory |-> ListInv(IF inv0 = <<>> THEN <<item_id>> ELSE <<item_id>> \o Tail(inv0)),
               assigned |-> inventory.is_none, success |-> TRUE, item_id |-> item_id]}

\* mutant: the reroll draws from the whole rarity pool, owned items included
add_to_inventory_reroll_unfiltered(inventory, item_id, rarity) ==
    LET inv0 == IF inventory.is_none THEN <<>> ELSE inventory.list
        available_items == PoolGet(rarity)
    IN  IF InList(item_id, inv0)
        THEN IF available_items # <<>>
             THEN {[inventory |-> ListInv(AppendIfAbsent(inv0, c)), assigned |-> inventory.is_none,
                    success |-> TRUE, item_id |-> c] : c \in Range(available_items)}
             ELSE {[inventory |-> ListInv(inv0), assigned |-> inventory.is_none,
                    success |-> FALSE, item_id |-> item_id]}
        ELSE {[inventory |-> ListInv(AppendIfAbsent(inv0, item_id)), assigned |-> inventory.is_none,
               success |-> TRUE, item_id |-> item_id]}

\* mutant: an exhausted rarity falls back to any item not yet owned
add_to_inventory_cross_rarity(inventory, item_id, rarity) ==
    LET inv0 == IF inventory.is_none THEN <<>> ELSE inventory.list
        available_items == SelectSeq(PoolGet(rarity), LAMBDA i : ~InList(i, inv0))
        others == {i \in AllItems : ~InList(i, inv0)}
    IN  IF InList(item_id, inv0)
        THEN IF available_items # <<>>
             THEN {[inventory |-> ListInv(AppendIfAbsent(inv0, c)), assigned |-> inventory.is_none,
                    success |-> TRUE, item_id |-> c] : c \in Range(available_items)}
             ELSE IF others # {}
                  THEN {[inventory |-> ListInv(Append(inv0, c)), assigned |-> inventory.is_none,
                         success |-> TRUE, item_id |-> c] : c \in others}
                  ELSE {[inventory |-> ListInv(inv0), assigned |-> inventory.is_none,
                         success |-> FALSE, item_id |-> item_id]}
        ELSE {[inventory |-> ListInv(AppendIfAbsent(inv0, item_id)), assigned |-> inventory.is_none,
               success |-> TRUE, item_id |-> item_id]}

\* mutant: a duplicate draw is refused without a look at the rest of the pool
add_to_inventory_no_reroll(inventory, item_id, rarity) ==
    LET inv0 == IF inventory.is_none THEN <<>> ELSE inventory.list
    IN  IF InList(item_id, inv0)
        THEN {[inventory |-> ListInv(inv0), assigned |-> inventory.is_none,
               success |-> FALSE, item_id |-> item_id]}
        ELSE {[inventory |-> ListInv(AppendIfAbsent(inv0, item_id)), assigned |-> inventory.is_none,
               success |-> TRUE, item_id |-> item_id]}

add_to_inventory(inventory, item_id, rarity) ==
    LET inv0 == IF inventory.is_none THEN <<>> ELSE inventory.list
        items_of_rarity == PoolGet(rarity)
        available_items == SelectSeq(items_of_rarity, LAMBDA i : ~InList(i, inv0))
    IN  IF InList(item_id, inv0)
        THEN IF available_items # <<>>
             THEN {[inventory |-> ListInv(AppendIfAbsent(inv0, c)), assigned |-> inventory.is_none,
                    success |-> TRUE, item_id |-> c] : c \in Range(available_items)}
             ELSE {[inventory |-> ListInv(inv0), assigned |-> inventory.is_none,
                    success |-> FALSE, item_id |-> item_id]}
        ELSE {[inventory |-> ListInv(AppendIfAbsent(inv0, item_id)), assigned |-> inventory.is_none,
               success |-> TRUE, item_id |-> item_id]}

(***************************************************************************)
(* Streak tracker: returns the counters of the user, changes nothing       *)
(***************************************************************************)
\* mutant: every call counts a qualifying day, with no look at `today`
update_streak_every_call(u, today) ==
    [user |-> [u EXCEPT !.current_streak = @ + 1, !.days_without_tasks = 0],
     ret  |-> [current_streak |-> u.current_streak + 1, days_without_tasks |-> 0]]

update_streak(u, today) ==
    [user |-> u,
     ret  |-> [current_streak |-> u.current_streak,
               days_without_tasks |-> u.days_without_tasks]]

(***************************************************************************)
(* Direct calls of the service functions on a User object                  *)
(***************************************************************************)
DrawRarities == {RarityOrder[i] : i \in 1..NumDrawRarities}
DrawItems == UNION {Range(LOOT_POOL[r]) : r \in DrawRarities}

NoCall ==
    [fn |-> "none", item_id |-> "", rarity |-> "", success |-> FALSE, final |-> "",
     before |-> <<>>, before_none |-> FALSE,
     streak |-> 0, chest |-> "", prev_streak |-> 0, prev_chest |-> "",
     due |-> 0, completed |-> 0, before_streak |-> 0, before_days |-> 0,
     ret_streak |-> 0, ret_days |-> 0, first |-> FALSE, emptied |-> ""]

InitInventories ==
    {NoneInv} \cup {ListInv(SubSeq(LOOT_POOL[r], 1, k)) : r \in DrawRarities, k \in 0..3}

\* start_*: the counters when the day began; once_*: the counters right
\* after the day's first evaluation
NoDay == [due |-> 0, completed |-> 0, today |-> 0, evaluated |-> FALSE,
          start_streak |-> 0, start_days |-> 0, once_streak |-> 0, once_days |-> 0]

ServiceIdle ==
    /\ db_users = <<>>
    /\ db_tasks = <<>>
    /\ req = <<>>
    /\ resp = <<>>

\* add_to_inventory(user, item_id, rarity)
CallAddToInventory(item_id, rarity) ==
    /\ Len(user.inventory.list) <= MaxInventory
    /\ \E o \in add_to_inventory(user.inventory, item_id, rarity) :
          /\ user' = [user EXCEPT !.inventory = o.inventory]
          /\ call' = [NoCall EXCEPT !.fn = "add_to_inventory", !.item_id = item_id,
                         !.rarity = rarity, !.success = o.success, !.final = o.item_id,
                         !.before = user.inventory.list,
                         !.before_none = user.inventory.is_none]
    /\ UNCHANGED <<day, db_users, db_tasks, req, resp>>

InitInventory ==
    /\ \E inv \in InitInventories :
          user = [inventory |-> inv, current_streak |-> 0, days_without_tasks |-> 0]
    /\ call = NoCall
    /\ day = NoDay
    /\ ServiceIdle

NextInventory ==
    \E item_id \in DrawItems, rarity \in DrawRarities \cup {"inconnu"} :
        CallAddToInventory(item_id, rarity)

SpecInventory == InitInventory /\ [][NextInventory]_vars

(***************************************************************************)
(* Direct calls of the chest classifier                                    *)
(***************************************************************************)
\* get_chest_type(streak), after an earlier call to compare with
CallGetChestType(streak) ==
    /\ call' = [NoCall EXCEPT !.fn = "get_chest_type", !.streak = streak,
                    !.chest = get_chest_type(streak),
                    !.prev_streak = IF call.fn = "get_chest_type" THEN call.streak ELSE streak,
                    !.prev_chest = IF call.fn = "get_chest_type" THEN call.chest
                                   ELSE get_chest_type(streak)]
    /\ UNCHANGED <<user, day, db_users, db_tasks, req, resp>>

InitClassify ==
    /\ user = [inventory |-> ListInv(<<>>), current_streak |-> 0, days_without_tasks |-> 0]
    /\ call = NoCall
    /\ day = NoDay
    /\ ServiceIdle

NextClassify == \E streak \in 0..MaxStreak : CallGetChestType(streak)

SpecClassify == InitClassify /\ [][NextClassify]_vars

(***************************************************************************)
(* The streak tracker called at the day boundary for a User object, with   *)
(* the day's facts: how many of the user's tasks were due that day and how *)
(* many the user completed that day.                                       *)
(***************************************************************************)
\* a task of the user falls due today
TaskDue ==
    /\ day.due < MaxTasks
    /\ day' = [day EXCEPT !.due = @ + 1]
    /\ UNCHANGED <<user, call, db_users, db_tasks, req, resp>>

\* a task of the user gets status done today (the task row alone is written)
TaskCompleted ==
    /\ day.completed < MaxTasks
    /\ day' = [day EXCEPT !.completed = @ + 1]
    /\ UNCHANGED <<user, call, db_users, db_tasks, req, resp>>

\* update_streak(user, today) evaluated for the current day
CallUpdateStreak ==
    LET r == update_streak(user, day.today)
    IN  /\ user' = r.user
        /\ call' = [NoCall EXCEPT !.fn = "update_streak",
                        !.due = day.due, !.completed = day.completed,
                        !.before_streak = user.current_streak,
                        !.before_days = user.days_without_tasks,
                        !.ret_streak = r.ret.current_streak,
                        !.ret_days = r.ret.days_without_tasks,
                        !.first = ~day.evaluated]
        /\ day' = [day EXCEPT !.evaluated = TRUE,
                       !.once_streak = IF day.evaluated THEN @ ELSE r.user.current_streak,
                       !.once_days = IF day.evaluated THEN @ ELSE r.user.days_without_tasks]
        /\ UNCHANGED <<db_users, db_tasks, req, resp>>

\* the calendar moves to the next day
NextDay ==
    /\ day.today < MaxToday
    /\ day' = [NoDay EXCEPT !.today = day.today + 1,
                   !.start_streak = user.current_streak,
                   !.start_days = user.days_without_tasks]
    /\ UNCHANGED <<user, call, db_users, db_tasks, req, resp>>

InitStreak ==
    /\ \E s \in 0..MaxStreak, d \in 0..MaxDays :
          /\ user = [inventory |-> ListInv(<<>>), current_streak |-> s,
                     days_without_tasks |-> d]
          /\ day = [NoDay EXCEPT !.start_streak = s, !.start_days = d]
    /\ call = NoCall
    /\ ServiceIdle

NextStreak ==
    \/ TaskDue
    \/ TaskCompleted
    \/ CallUpdateStreak
    \/ NextDay

SpecStreak == InitStreak /\ [][NextStreak]_vars

(***************************************************************************)
(* The HTTP service: tables users and tasks, one SQLAlchemy session per    *)
(* request.  A handler is split where it talks to the database, so that    *)
(* requests interleave as the server's worker threads let them.            *)
(***************************************************************************)
Users == {1, 2}
Reqs == {1, 2}

NoUser == [exists |-> FALSE, inventory |-> NoneInv, current_streak |-> 0,
           days_without_tasks |-> 0, last_task_completed |-> "NULL"]

\* mutant: the streak column defaults to 1, the day of the signup counted
NewUser_streak_one ==
    [exists |-> TRUE, inventory |-> ListInv(<<>>), current_streak |-> 1,
     days_without_tasks |-> 0, last_task_completed |-> "NULL"]

\* a row written by signup: the column defaults
NewUser == [exists |-> TRUE, inventory |-> ListInv(<<>>), current_streak |-> 0,
            days_without_tasks |-> 0, last_task_completed |-> "NULL"]

\* a row whose inventory column holds no list
NullInventoryUser == [NewUser EXCEPT !.inventory = NoneInv]

\* the draws of choose_loot that the random source is let to produce: the
\* k-th is the ((k-1) \div 5 + 1)-th item of the ((k-1) % 5 + 1)-th rarity
LootAt(k) ==
    LET r == RarityOrder[((k - 1) % Len(RarityOrder)) + 1]
    IN  <<r, LOOT_POOL[r][(((k - 1) \div Len(RarityOrder)) % Len(LOOT_POOL[r])) + 1]>>

SampledLoot == {LootAt(k) : k \in 1..NumSampledLoot}

IdleReq ==
    [pc |-> "idle", user_id |-> 0, chest_type |-> "", rarity |-> "",
     item_id |-> "", added |-> FALSE, inventory |-> NoneInv, dirty |-> FALSE]

NoResp ==
    [handler |-> "none", status |-> 0, user_id |-> 0, task_id |-> 0,
     task_owned |-> FALSE, chest_type |-> "", rarity |-> "", item_id |-> "",
     added |-> FALSE, inventory_count |-> 0, inventory |-> <<>>, count |-> 0,
     current_streak |-> 0, days_without_tasks |-> 0,
     after_redeem |-> FALSE, prev_count |-> 0, next_chest_type |-> ""]


\* the Authorization headers tried: none, one that does not decode, and
\* the bearer token of each user
TokenOf(u) == IF u = 1 THEN "token1" ELSE "token2"
Authorizations == {"missing", "invalid"} \cup {TokenOf(u) : u \in Users}

\* decode_token: the user_id of the payload, 0 for None
decode_token(token) ==
    IF \E u \in Users : TokenOf(u) = token
    THEN CHOOSE u \in Users : TokenOf(u) = token
    ELSE 0

\* get_current_user: the caller's row, or the error status
get_current_user(authorization, users) ==
    LET user_id == decode_token(authorization)
    IN  IF authorization = "missing" THEN [status |-> 401, user_id |-> 0]
        ELSE IF user_id = 0 THEN [status |-> 401, user_id |-> 0]
        ELSE IF ~users[user_id].exists THEN [status |-> 404, user_id |-> 0]
        ELSE [status |-> 200, user_id |-> user_id]

\* mutant: the task is looked up by id alone
task_query_any_owner(tasks, task_id, user_id) ==
    task_id \in 1..Len(tasks)

\* db.query(Task).filter(Task.id == task_id, Task.user_id == user_id).first()
task_query(tasks, task_id, user_id) ==
    /\ task_id \in 1..Len(tasks)
    /\ tasks[task_id].user_id = user_id

\* mutant: a chest type the table lacks gets the richest row
choose_loot_probas_fallback_exotic(chest_type) ==
    CHEST_PROBABILITIES[IF chest_type \in DOMAIN CHEST_PROBABILITIES
                        THEN chest_type ELSE "exotic"]

\* choose_loot, lines 108-113: the weights random.choices is given
choose_loot_probas(chest_type) ==
    CHEST_PROBABILITIES[IF chest_type \in DOMAIN CHEST_PROBABILITIES
                        THEN chest_type ELSE "basic"]

\* choose_loot with the module's LOOT_POOL being `pool`: random.choices over
\* the chest's weights, then random.choice in pool.get(chosen_rarity, [])
choose_loot_from(chest_type, pool) ==
    LET probas == choose_loot_probas(chest_type)
        rarities == {x \in DOMAIN probas : probas[x] > 0}
        items(r) == IF r \in DOMAIN pool /\ pool[r] # <<>>
                    THEN Range(pool[r]) ELSE {"fish_blue"}
    IN  UNION {{<<r, i>> : i \in items(r)} : r \in rarities}

\* mutant: the item is drawn from the whole catalog, not from the pool of
\* the drawn rarity
choose_loot_any_pool(chest_type) ==
    LET probas == choose_loot_probas(chest_type)
        rarities == {x \in DOMAIN probas : probas[x] > 0}
    IN  rarities \X AllItems

\* choose_loot(chest_type) with the catalog as shipped
choose_loot(chest_type) == choose_loot_from(chest_type, LOOT_POOL)

\* mutant: the idle reset is applied when the chest is classified
open_chest_type_idle_reset(current_user) ==
    get_chest_type(IF current_user.days_without_tasks >= 3 THEN 0
                   ELSE current_user.current_streak)

\* open_chest: chest_type = get_chest_type(current_user.current_streak)
open_chest_type(current_user) == get_chest_type(current_user.current_streak)

\* mutant: the chest announced is the one of the streak a day later
get_streak_next_chest_day_later(current_user) ==
    get_chest_type(current_user.current_streak + 1)

\* get_streak: next_chest = get_chest_type(current_user.current_streak)
get_streak_next_chest(current_user) == get_chest_type(current_user.current_streak)

\* mutant: the commit of a redemption also stamps the row as active today
session_commit_stamps_activity(row, inventory, dirty) ==
    [(IF dirty THEN [row EXCEPT !.inventory = inventory] ELSE row)
        EXCEPT !.last_task_completed = "today"]

\* Session.commit(): the row after the flush.  users.inventory is a plain
\* JSON column: only an assignment to the attribute marks it as changed,
\* an append to the loaded list does not, and then no UPDATE is sent.
session_commit(row, inventory, dirty) ==
    IF dirty THEN [row EXCEPT !.inventory = inventory] ELSE row

\* mutant: the session keeps what it holds in memory after a commit
session_attribute_kept(in_memory, stored) == in_memory

\* an attribute read after db.commit(): the sessions expire on commit, so
\* the value is read again from the row
session_attribute(in_memory, stored) == stored

\* len(current_user.inventory) if current_user.inventory else 0
inventory_count(inventory) ==
    IF inventory.is_none \/ inventory.list = <<>> THEN 0 ELSE Len(inventory.list)

\* the slot a new request takes: the first idle one
FreeSlot(r) == req[r].pc = "idle" /\ \A q \in Reqs : q < r => req[q].pc # "idle"

\* POST /auth/signup
signup(u) ==
    /\ ~db_users[u].exists
    /\ db_users' = [db_users EXCEPT ![u] = NewUser]
    /\ resp' = [NoResp EXCEPT !.handler = "signup", !.status = 200, !.user_id = u]
    /\ UNCHANGED <<user, call, day, db_tasks, req>>

\* POST /tasks
create_task(authorization, status) ==
    LET cu == get_current_user(authorization, db_users)
    IN  /\ cu.status = 200
        /\ Len(db_tasks) < MaxTaskRows
        /\ db_tasks' = Append(db_tasks, [user_id |-> cu.user_id, status |-> status,
                                         is_archived |-> FALSE])
        /\ resp' = [NoResp EXCEPT !.handler = "create_task", !.status = 201,
                       !.user_id = cu.user_id, !.task_id = Len(db_tasks) + 1]
        /\ UNCHANGED <<user, call, day, db_users, req>>

\* POST /rewards/open-chest up to the commit: the caller's row is loaded, the
\* task is looked up, the loot is drawn and reconciled in memory
open_chest_begin(r, authorization, task_id) ==
    LET cu == get_current_user(authorization, db_users)
        owned == cu.status = 200 /\ task_id \in 1..Len(db_tasks)
                     /\ db_tasks[task_id].user_id = cu.user_id
    IN  /\ FreeSlot(r)
        /\ IF cu.status # 200
           THEN /\ resp' = [NoResp EXCEPT !.handler = "open_chest", !.status = cu.status,
                               !.task_id = task_id]
                /\ UNCHANGED req
           ELSE IF ~task_query(db_tasks, task_id, cu.user_id)
           THEN /\ resp' = [NoResp EXCEPT !.handler = "open_chest", !.status = 404,
                               !.user_id = cu.user_id, !.task_id = task_id,
                               !.task_owned = owned]
                /\ UNCHANGED req
           ELSE LET row == db_users[cu.user_id]
                    chest_type == open_chest_type(row)
                IN  \E loot \in choose_loot(chest_type) \cap SampledLoot :
                      /\ \E o \in add_to_inventory(row.inventory, loot[2], loot[1]) :
                            req' = [req EXCEPT ![r] =
                                       [pc |-> "computed", user_id |-> cu.user_id,
                                        chest_type |-> chest_type,
                                        rarity |-> loot[1], item_id |-> o.item_id,
                                        added |-> o.success, inventory |-> o.inventory,
                                        dirty |-> o.assigned]]
                      /\ UNCHANGED resp
        /\ UNCHANGED <<user, call, day, db_users, db_tasks>>

\* db.commit() of open_chest: the flush
open_chest_commit(r) ==
    /\ req[r].pc = "computed"
    /\ db_users' = [db_users EXCEPT ![req[r].user_id] =
                       session_commit(@, req[r].inventory, req[r].dirty)]
    /\ req' = [req EXCEPT ![r] = [@ EXCEPT !.pc = "committed", !.dirty = FALSE]]
    /\ UNCHANGED <<user, call, day, db_tasks, resp>>

\* the response of open_chest, built from the attributes as the session
\* gives them after the commit
open_chest_respond(r) ==
    LET row == db_users[req[r].user_id]
    IN  /\ req[r].pc = "committed"
        /\ resp' = [NoResp EXCEPT !.handler = "open_chest", !.status = 201,
                       !.user_id = req[r].user_id, !.task_owned = TRUE,
                       !.chest_type = req[r].chest_type, !.rarity = req[r].rarity,
                       !.item_id = req[r].item_id, !.added = req[r].added,
                       !.current_streak = row.current_streak,
                       !.days_without_tasks = row.days_without_tasks,
                       !.inventory_count =
                           inventory_count(session_attribute(req[r].inventory, row.inventory))]
        /\ req' = [req EXCEPT ![r] = IdleReq]
        /\ UNCHANGED <<user, call, day, db_users, db_tasks>>

\* GET /rewards/inventory
get_inventory(authorization) ==
    LET cu == get_current_user(authorization, db_users)
        row == IF cu.status = 200 THEN db_users[cu.user_id] ELSE NoUser
        inventory == IF row.inventory.is_none \/ row.inventory.list = <<>>
                     THEN <<>> ELSE row.inventory.list
    IN  /\ IF cu.status # 200
           THEN resp' = [NoResp EXCEPT !.handler = "get_inventory", !.status = cu.status]
           ELSE resp' = [NoResp EXCEPT !.handler = "get_inventory", !.status = 200,
                            !.user_id = cu.user_id, !.inventory = inventory,
                            !.count = Len(inventory),
                            !.after_redeem =
                                /\ resp.handler = "open_chest" /\ resp.status = 201
                                /\ resp.user_id = cu.user_id
                                /\ \A q \in Reqs : req[q].pc = "idle",
                            !.prev_count = resp.inventory_count]
        /\ UNCHANGED <<user, call, day, db_users, db_tasks, req>>

\* GET /rewards/streak
get_streak(authorization) ==
    LET cu == get_current_user(authorization, db_users)
        row == IF cu.status = 200 THEN db_users[cu.user_id] ELSE NoUser
        next_chest == get_streak_next_chest(row)
    IN  /\ IF cu.status # 200
           THEN resp' = [NoResp EXCEPT !.handler = "get_streak", !.status = cu.status]
           ELSE resp' = [NoResp EXCEPT !.handler = "get_streak", !.status = 200,
                            !.user_id = cu.user_id,
                            !.current_streak = row.current_streak,
                            !.days_without_tasks = row.days_without_tasks,
                            !.next_chest_type = next_chest]
        /\ UNCHANGED <<user, call, day, db_users, db_tasks, req>>

\* mutant: a task set to "done" is counted in the owner's streak
update_status_counts_completion(authorization, task_id, new_status) ==
    LET cu == get_current_user(authorization, db_users)
        valid_statuses == {"todo", "in_progress", "done", "cancelled"}
        answer(code) == [NoResp EXCEPT !.handler = "update_status", !.status = code,
                            !.user_id = cu.user_id, !.task_id = task_id]
    IN  /\ IF cu.status # 200
           THEN resp' = answer(cu.status) /\ UNCHANGED <<db_tasks, db_users>>
           ELSE IF new_status \notin valid_statuses
           THEN resp' = answer(400) /\ UNCHANGED <<db_tasks, db_users>>
           ELSE IF ~task_query(db_tasks, task_id, cu.user_id)
           THEN resp' = answer(404) /\ UNCHANGED <<db_tasks, db_users>>
           ELSE /\ db_tasks' = [db_tasks EXCEPT ![task_id].status = new_status]
                /\ db_users' = [db_users EXCEPT ![cu.user_id] =
                       IF new_status = "done"
                       THEN [@ EXCEPT !.current_streak = IF @ < MaxStreak THEN @ + 1 ELSE @,
                                      !.days_without_tasks = 0,
                                      !.last_task_completed = "today"]
                       ELSE @]
                /\ resp' = answer(200)
        /\ UNCHANGED <<user, call, day, req>>

\* POST /tasks/{task_id}/status
update_status(authorization, task_id, new_status) ==
    LET cu == get_current_user(authorization, db_users)
        valid_statuses == {"todo", "in_progress", "done", "cancelled"}
        answer(code) == [NoResp EXCEPT !.handler = "update_status", !.status = code,
                            !.user_id = cu.user_id, !.task_id = task_id]
    IN  /\ IF cu.status # 200
           THEN resp' = answer(cu.status) /\ UNCHANGED db_tasks
           ELSE IF new_status \notin valid_statuses
           THEN resp' = answer(400) /\ UNCHANGED db_tasks
           ELSE IF ~task_query(db_tasks, task_id, cu.user_id)
           THEN resp' = answer(404) /\ UNCHANGED db_tasks
           ELSE /\ db_tasks' = [db_tasks EXCEPT ![task_id].status = new_status]
                /\ resp' = answer(200)
        /\ UNCHANGED <<user, call, day, db_users, req>>

\* PUT /tasks/{task_id} with a body that sets status
update_task(authorization, task_id, new_status) ==
    LET cu == get_current_user(authorization, db_users)
        answer(code) == [NoResp EXCEPT !.handler = "update_task", !.status = code,
                            !.user_id = cu.user_id, !.task_id = task_id]
    IN  /\ IF cu.status # 200
           THEN resp' = answer(cu.status) /\ UNCHANGED db_tasks
           ELSE IF ~task_query(db_tasks, task_id, cu.user_id)
           THEN resp' = answer(404) /\ UNCHANGED db_tasks
           ELSE /\ db_tasks' = [db_tasks EXCEPT ![task_id].status = new_status]
                /\ resp' = answer(200)
        /\ UNCHANGED <<user, call, day, db_users, req>>

\* DELETE /tasks/{task_id}
delete_task(authorization, task_id) ==
    LET cu == get_current_user(authorization, db_users)
        answer(code) == [NoResp EXCEPT !.handler = "delete_task", !.status = code,
                            !.user_id = cu.user_id, !.task_id = task_id]
    IN  /\ IF cu.status # 200
           THEN resp' = answer(cu.status) /\ UNCHANGED db_tasks
           ELSE IF ~task_query(db_tasks, task_id, cu.user_id)
           THEN resp' = answer(404) /\ UNCHANGED db_tasks
           ELSE /\ db_tasks' = [db_tasks EXCEPT ![task_id].is_archived = TRUE]
                /\ resp' = answer(204)
        /\ UNCHANGED <<user, call, day, db_users, req>>

UnitIdle ==
    /\ user = [inventory |-> ListInv(<<>>), current_streak |-> 0, days_without_tasks |-> 0]
    /\ call = NoCall
    /\ day = NoDay

Init ==
    /\ UnitIdle
    /\ \E row \in {NoUser, NullInventoryUser} :
          db_users = [u \in Users |-> IF u = 1 THEN row ELSE NewUser]
    /\ db_tasks = <<>>
    /\ req = [r \in Reqs |-> IdleReq]
    /\ resp = NoResp

Next ==
    \/ \E u \in Users : signup(u)
    \/ \E a \in Authorizations : create_task(a, "done")
    \/ \E r \in Reqs, a \in Authorizations, t \in 1..(MaxTaskRows + 1) :
          open_chest_begin(r, a, t)
    \/ \E r \in Reqs : open_chest_commit(r)
    \/ \E r \in Reqs : open_chest_respond(r)
    \/ \E a \in Authorizations : get_inventory(a)

Spec == Init /\ [][Next]_vars

(***************************************************************************)
(* Direct calls of the loot sampler and of the inventory manager on its    *)
(* draw, as open_chest chains them                                         *)
(***************************************************************************)
ChestTypes == DOMAIN CHEST_PROBABILITIES \cup {"legendary"}

\* rarity, item_id = choose_loot(chest_type)
CallChooseLoot(chest_type) ==
    /\ call.fn # "choose_loot"
    /\ Len(user.inventory.list) <= MaxInventory
    /\ \E loot \in choose_loot(chest_type) :
          /\ loot[1] \in DrawRarities
          /\ call' = [NoCall EXCEPT !.fn = "choose_loot", !.chest = chest_type,
                          !.rarity = loot[1], !.item_id = loot[2]]
    /\ UNCHANGED <<user, day, db_users, db_tasks, req, resp>>

InitLoot == InitInventory

NextLoot ==
    \/ \E chest_type \in ChestTypes : CallChooseLoot(chest_type)
    \/ call.fn = "choose_loot" /\ CallAddToInventory(call.item_id, call.rarity)

SpecLoot == InitLoot /\ [][NextLoot]_vars

(***************************************************************************)
(* Direct calls of the loot sampler while the module's LOOT_POOL is the    *)
(* shipped catalog or one whose pool of some rarity was left empty         *)
(***************************************************************************)
\* LOOT_POOL with the list of rarity `emptied` empty ("": none, as shipped)
LootPoolWithout(emptied) ==
    [r \in DOMAIN LOOT_POOL |-> IF r = emptied THEN <<>> ELSE LOOT_POOL[r]]

\* rarity, item_id = choose_loot(chest_type) under that catalog
CallChooseLootFrom(chest_type, emptied) ==
    /\ \E loot \in choose_loot_from(chest_type, LootPoolWithout(emptied)) :
          call' = [NoCall EXCEPT !.fn = "choose_loot", !.chest = chest_type,
                      !.rarity = loot[1], !.item_id = loot[2], !.emptied = emptied]
    /\ UNCHANGED <<user, day, db_users, db_tasks, req, resp>>

InitCatalog == InitClassify

NextCatalog ==
    \E chest_type \in ChestTypes, emptied \in {""} \cup DOMAIN LOOT_POOL :
        CallChooseLootFrom(chest_type, emptied)

SpecCatalog == InitCatalog /\ [][NextCatalog]_vars

(***************************************************************************)
(* A User object that keeps redeeming: each call draws with choose_loot    *)
(* and hands the draw to add_to_inventory, as open_chest chains them; the  *)
(* object keeps what it was granted. random.choices gives every rarity a   *)
(* positive weight in every chest, so each rarity keeps being drawn.       *)
(***************************************************************************)
CollectRarities == {RarityOrder[i] : i \in 1..NumCollectRarities}
CollectItems == UNION {Range(LOOT_POOL[r]) : r \in CollectRarities}

\* chest_type = get_chest_type(current_user.current_streak)
\* rarity, item_id = choose_loot(chest_type)
\* result = add_to_inventory(current_user, item_id, rarity)
CollectLoot(rarity) ==
    /\ \E loot \in choose_loot(open_chest_type(user)) :
          /\ loot[1] = rarity
          /\ \E o \in add_to_inventory(user.inventory, loot[2], loot[1]) :
                /\ user' = [user EXCEPT !.inventory = o.inventory]
                /\ call' = [NoCall EXCEPT !.fn = "collect",
                                !.chest = open_chest_type(user),
                                !.item_id = loot[2], !.rarity = loot[1],
                                !.success = o.success, !.final = o.item_id,
                                !.before = user.inventory.list,
                                !.before_none = user.inventory.is_none]
    /\ UNCHANGED <<day, db_users, db_tasks, req, resp>>

InitCollect ==
    /\ \E s \in {0, 3, MaxStreak} :
          user = [inventory |-> ListInv(<<>>), current_streak |-> s,
                  days_without_tasks |-> 0]
    /\ call = NoCall
    /\ day = NoDay
    /\ ServiceIdle

NextCollect == \E rarity \in CollectRarities : CollectLoot(rarity)

SpecCollect ==
    /\ InitCollect
    /\ [][NextCollect]_vars
    /\ \A rarity \in CollectRarities : WF_vars(CollectLoot(rarity))

(***************************************************************************)
(* The application as main.py assembles it: a request is routed to a       *)
(* handler only if a router with its path was included.                    *)
(***************************************************************************)
\* the prefixes of the routers passed to app.include_router
app_routers ==
    {"/health", "/auth", "/pages", "/blocks", "/tasks", "/links", "/ai-traces",
     "/ai-analyze"}

RewardEndpoints == {"open_chest", "get_inventory", "get_streak"}

\* a request to POST /rewards/open-chest, GET /rewards/inventory or GET
\* /rewards/streak: the handler if the router is mounted, else the
\* framework's 404 Not Found
rewards_request(endpoint, r, authorization, task_id) ==
    IF "/rewards" \in app_routers
    THEN CASE endpoint = "open_chest" -> open_chest_begin(r, authorization, task_id)
           [] endpoint = "get_inventory" -> get_inventory(authorization)
           [] endpoint = "get_streak" -> get_streak(authorization)
    ELSE /\ resp' = [NoResp EXCEPT !.handler = endpoint, !.status = 404,
                        !.task_id = task_id]
         /\ UNCHANGED <<user, call, day, db_users, db_tasks, req>>

InitApp == Init

NextApp ==
    \/ \E u \in Users : signup(u)
    \/ \E a \in Authorizations, st \in {"todo", "done"} : create_task(a, st)
    \/ \E a \in Authorizations, t \in 1..(MaxTaskRows + 1),
          st \in {"todo", "done", "finished"} : update_status(a, t, st)
    \/ \E e \in RewardEndpoints, a \in Authorizations, t \in 1..(MaxTaskRows + 1) :
          rewards_request(e, 1, a, t)

SpecApp == InitApp /\ [][NextApp]_vars

(***************************************************************************)
(* The reward endpoints over user rows whose counters the table holds:     *)
(* both users exist and own one done task each (task u belongs to user u); *)
(* user 2 has the streak of user 1 or none, its own days_without_tasks and *)
(* an item already.                                                        *)
(***************************************************************************)
InitTier ==
    /\ UnitIdle
    /\ \E s \in 0..MaxStreak, d \in {0, MaxDays}, same \in BOOLEAN :
          db_users = [u \in Users |->
                         IF u = 1
                         THEN [NewUser EXCEPT !.current_streak = s]
                         ELSE [NewUser EXCEPT !.current_streak = IF same THEN s ELSE 0,
                                              !.days_without_tasks = d,
                                              !.inventory = ListInv(<<"fish_blue">>)]]
    /\ db_tasks = [u \in Users |-> [user_id |-> u, status |-> "done"]]
    /\ req = [r \in Reqs |-> IdleReq]
    /\ resp = NoResp

NextTier ==
    \/ \E r \in Reqs, a \in Authorizations, t \in Users : open_chest_begin(r, a, t)
    \/ \E r \in Reqs : open_chest_commit(r)
    \/ \E r \in Reqs : open_chest_respond(r)
    \/ \E a \in Authorizations : get_streak(a)

SpecTier == InitTier /\ [][NextTier]_vars

(***************************************************************************)
(* The reward endpoints over user rows that hold items already: user 2     *)
(* owns the whole commun pool, user 1 two or three items without the first *)
(* commun one; each owns one done task (task u belongs to user u).         *)
(***************************************************************************)
InitRows ==
    /\ UnitIdle
    /\ \E other \in {<<>>, <<LOOT_POOL["atypique"][1]>>} :
          db_users = [u \in Users |->
                         IF u = 1
                         THEN [NewUser EXCEPT !.inventory =
                                  ListInv(Tail(LOOT_POOL["commun"]) \o other)]
                         ELSE [NewUser EXCEPT !.inventory = ListInv(LOOT_POOL["commun"])]]
    /\ db_tasks = [u \in Users |-> [user_id |-> u, status |-> "done"]]
    /\ req = [r \in Reqs |-> IdleReq]
    /\ resp = NoResp

SpecRows == InitRows /\ [][NextTier]_vars

(***************************************************************************)
(* The reward endpoints over tasks of any status, archived or not: each    *)
(* user owns one task (task u belongs to user u), so that every redemption *)
(* of a user after the first replays the same task_id.                     *)
(***************************************************************************)
TaskStatuses == {"todo", "in_progress", "done", "cancelled"}

InitReplay ==
    /\ UnitIdle
    /\ \E row \in {NewUser, NullInventoryUser} :
          db_users = [u \in Users |-> IF u = 1 THEN row ELSE NewUser]
    /\ \E st \in TaskStatuses, ar \in BOOLEAN :
          db_tasks = [u \in Users |->
                         [user_id |-> u, status |-> st, is_archived |-> ar]]
    /\ req = [r \in Reqs |-> IdleReq]
    /\ resp = NoResp

SpecReplay == InitReplay /\ [][NextTier]_vars

(***************************************************************************)
(* The reward endpoints over two users with something to lose: user 1 has  *)
(* a NULL inventory, user 2 an item; both have idle days and the same      *)
(* streak, none or the highest; each owns one done task, archived or not   *)
(* (task u belongs to user u).                                             *)
(***************************************************************************)
InitIsolation ==
    /\ UnitIdle
    /\ \E s \in {0, MaxStreak} :
          db_users = [u \in Users |->
                         IF u = 1
                         THEN [NullInventoryUser EXCEPT !.current_streak = s,
                                                        !.days_without_tasks = MaxDays]
                         ELSE [NewUser EXCEPT !.current_streak = s,
                                              !.days_without_tasks = MaxDays,
                                              !.inventory = ListInv(<<"fish_blue">>)]]
    /\ \E ar \in BOOLEAN :
          db_tasks = [u \in Users |->
                         [user_id |-> u, status |-> "done", is_archived |-> ar]]
    /\ req = [r \in Reqs |-> IdleReq]
    /\ resp = NoResp

SpecIsolation == InitIsolation /\ [][NextTier]_vars

(***************************************************************************)
(* Every operation on users, tasks and rewards, one request at a time      *)
(***************************************************************************)
InitSystem ==
    /\ UnitIdle
    /\ db_users = [u \in Users |-> IF u = 1 THEN NoUser ELSE NewUser]
    /\ db_tasks = <<>>
    /\ req = [r \in Reqs |-> IdleReq]
    /\ resp = NoResp

NextSystem ==
    \/ \E u \in Users : signup(u)
    \/ \E u \in Users : create_task(TokenOf(u), "todo")
    \/ \E u \in Users, t \in 1..MaxTaskRows : update_status(TokenOf(u), t, "done")
    \/ \E u \in Users, t \in 1..MaxTaskRows : update_task(TokenOf(u), t, "done")
    \/ \E u \in Users, t \in 1..MaxTaskRows : delete_task(TokenOf(u), t)
    \/ \E a \in Authorizations, t \in 1..(MaxTaskRows + 1) : open_chest_begin(1, a, t)
    \/ open_chest_commit(1)
    \/ open_chest_respond(1)
    \/ \E a \in Authorizations : get_inventory(a)
    \/ \E a \in Authorizations : get_streak(a)

SpecSystem == InitSystem /\ [][NextSystem]_vars

(***************************************************************************)
(* Claims about the inventory manager (SpecInventory)                      *)
(***************************************************************************)
NoDuplicates(s) == Cardinality(Range(s)) = Len(s)

Added == call.fn = "add_to_inventory"

PoolExhausted(rarity, owned) == \A i \in Range(PoolGet(rarity)) : InList(i, owned)

\* C1: whatever add_to_inventory calls were made, with whatever drawn item
\* and rarity, no identifier occurs twice in the user's inventory.
C1_NoDuplicateInventory == NoDuplicates(user.inventory.list)

C1_Witness ==
    /\ Added
    /\ InList(call.item_id, call.before)
    /\ PoolExhausted(call.rarity, call.before)
    /\ Len(user.inventory.list) >= 3

\* C3: a drawn item that was not owned is returned with success = TRUE and
\* the inventory is the previous one with that item appended.
C3_NewItem ==
    (Added /\ ~InList(call.item_id, call.before)) =>
        /\ call.success
        /\ call.final = call.item_id
        /\ user.inventory.list = Append(call.before, call.item_id)
        /\ Len(user.inventory.list) = Len(call.before) + 1

C3_Witness ==
    /\ Added
    /\ ~InList(call.item_id, call.before)
    /\ Len(call.before) >= 2
    /\ user.inventory.list = Append(call.before, call.item_id)

\* C4: a drawn item that is owned, with an item of the drawn rarity still
\* missing: success = TRUE, the final item is of the drawn rarity and was not
\* owned, the inventory is the previous one plus that item, and the drawn
\* item is still there exactly once.
C4_Reroll ==
    (Added /\ InList(call.item_id, call.before) /\ ~PoolExhausted(call.rarity, call.before)) =>
        /\ call.success
        /\ call.final \in Range(PoolGet(call.rarity))
        /\ ~InList(call.final, call.before)
        /\ user.inventory.list = Append(call.before, call.final)
        /\ Cardinality({i \in 1..Len(user.inventory.list) :
                            user.inventory.list[i] = call.item_id}) = 1

C4_Witness ==
    /\ Added
    /\ InList(call.item_id, call.before)
    /\ ~PoolExhausted(call.rarity, call.before)
    /\ call.final # call.item_id
    /\ user.inventory.list = Append(call.before, call.final)

\* C5: a drawn item that is owned, with every item of the drawn rarity owned:
\* (FALSE, drawn item), the inventory is left as it was, no item of another
\* rarity is granted, and the same call again has that one outcome only.
C5_Exhaustion ==
    (Added /\ InList(call.item_id, call.before) /\ PoolExhausted(call.rarity, call.before)) =>
        /\ ~call.success
        /\ call.final = call.item_id
        /\ user.inventory.list = call.before
        /\ add_to_inventory(user.inventory, call.item_id, call.rarity) =
               {[inventory |-> user.inventory, assigned |-> FALSE,
                 success |-> FALSE, item_id |-> call.item_id]}

C5_Witness ==
    /\ Added
    /\ InList(call.item_id, call.before)
    /\ call.rarity \in DOMAIN LOOT_POOL
    /\ PoolExhausted(call.rarity, call.before)
    /\ ~call.success
    /\ Len(user.inventory.list) < Cardinality(DrawItems)

(***************************************************************************)
(* Claims about the loot sampler chained with the inventory manager        *)
(* (SpecLoot)                                                              *)
(***************************************************************************)
\* C20: whatever the chest, choose_loot gives one of the five rarities and
\* an item of that rarity's pool (this draw and every draw it could have
\* made); and the item returned by add_to_inventory for that draw, whether
\* kept, rerolled or refused for exhaustion, is of the pool of the drawn
\* rarity.
C20_ItemOfRarity ==
    /\ call.fn = "choose_loot" =>
          /\ call.rarity \in Range(RarityOrder)
          /\ InList(call.item_id, PoolGet(call.rarity))
          /\ \A loot \in choose_loot(call.chest) :
                /\ loot[1] \in Range(RarityOrder)
                /\ InList(loot[2], PoolGet(loot[1]))
    /\ call.fn = "add_to_inventory" =>
          /\ call.rarity \in Range(RarityOrder)
          /\ InList(call.final, PoolGet(call.rarity))

C20_Witness ==
    /\ call.fn = "add_to_inventory"
    /\ PoolExhausted(call.rarity, call.before)
    /\ ~call.success
    /\ call.final = call.item_id
    /\ Len(call.before) >= Len(PoolGet(call.rarity))
    /\ call.rarity = RarityOrder[NumDrawRarities]

Total(probas) ==
    probas["commun"] + probas["atypique"] + probas["rare"] + probas["épique"]
        + probas["exotique"]

\* C21: choose_loot with a chest type that is none of basic, rare, epic,
\* exotic returns a loot: one that choose_loot("basic") can return, out of
\* the same set of results and under the same weights.
C21_UnknownTierIsBasic ==
    (call.fn = "choose_loot" /\ call.chest \notin {"basic", "rare", "epic", "exotic"}) =>
        /\ <<call.rarity, call.item_id>> \in choose_loot("basic")
        /\ choose_loot(call.chest) = choose_loot("basic")
        /\ choose_loot_probas(call.chest) = CHEST_PROBABILITIES["basic"]

C21_Witness ==
    /\ call.fn = "choose_loot"
    /\ call.chest = "legendary"
    /\ call.rarity = RarityOrder[NumDrawRarities]
    /\ user.inventory.list # <<>>

\* C24: for the chest of every draw, and for each of the four chest types,
\* the weights over the five rarities add up to 100 hundredths and each is
\* strictly positive, so that every rarity can be drawn from every chest.
C24_ProbabilitiesSumToOne ==
    /\ \A t \in {"basic", "rare", "epic", "exotic"} :
          /\ DOMAIN CHEST_PROBABILITIES[t] = Range(RarityOrder)
          /\ Total(CHEST_PROBABILITIES[t]) = 100
          /\ \A r \in Range(RarityOrder) :
                /\ CHEST_PROBABILITIES[t][r] > 0
                /\ \E loot \in choose_loot(t) : loot[1] = r
    /\ call.fn = "choose_loot" =>
          /\ Total(choose_loot_probas(call.chest)) = 100
          /\ choose_loot_probas(call.chest)[call.rarity] > 0

C24_Witness ==
    /\ call.fn = "choose_loot"
    /\ call.chest = "epic"
    /\ call.rarity = RarityOrder[NumDrawRarities]
    /\ call.item_id = LOOT_POOL[call.rarity][Len(LOOT_POOL[call.rarity])]

(***************************************************************************)
(* Claims about the loot sampler under a catalog with an empty pool        *)
(* (SpecCatalog)                                                           *)
(***************************************************************************)
\* C22: when the pool of the drawn rarity is empty, choose_loot returns no
\* item: neither one of another rarity's pool nor any other catalog item.
C22_EmptyPoolFails ==
    (call.fn = "choose_loot" /\ LootPoolWithout(call.emptied)[call.rarity] = <<>>) =>
        call.item_id \notin AllItems

(***************************************************************************)
(* Claims about the chest classifier (SpecClassify)                        *)
(***************************************************************************)
TierRank(t) ==
    CASE t = "basic" -> 0 [] t = "rare" -> 1 [] t = "epic" -> 2 [] t = "exotic" -> 3
      [] OTHER -> 0 - 1

\* C2: every streak >= 0 gets a tier: basic for 0..2, rare for 3..6, epic for
\* 7..13, exotic from 14 on; a larger streak never gets a poorer tier.
C2_Classify ==
    call.fn = "get_chest_type" =>
        /\ call.chest \in {"basic", "rare", "epic", "exotic"}
        /\ (call.streak \in 0..2 => call.chest = "basic")
        /\ (call.streak \in 3..6 => call.chest = "rare")
        /\ (call.streak \in 7..13 => call.chest = "epic")
        /\ (call.streak >= 14 => call.chest = "exotic")
        /\ (call.prev_streak <= call.streak =>
                TierRank(call.prev_chest) <= TierRank(call.chest))

C2_Witness ==
    /\ call.fn = "get_chest_type"
    /\ call.prev_streak = 13 /\ call.prev_chest = "epic"
    /\ call.streak = 14 /\ call.chest = "exotic"

(***************************************************************************)
(* Claims about the streak tracker (SpecStreak)                            *)
(***************************************************************************)
Evaluated == call.fn = "update_streak" /\ call.first

\* C10: the day's first evaluation for a user with at least one task due
\* and at least one task completed that day raises current_streak by
\* exactly 1 and sets days_without_tasks to 0.
C10_SuccessfulDay ==
    (Evaluated /\ call.due >= 1 /\ call.completed >= 1) =>
        /\ user.current_streak = call.before_streak + 1
        /\ user.days_without_tasks = 0

\* C11: the day's first evaluation for a user with at least one task due
\* and none completed that day sets current_streak to 0, whatever it was.
C11_MissedDay ==
    (Evaluated /\ call.due >= 1 /\ call.completed = 0) =>
        user.current_streak = 0

\* C12: the day's first evaluation for a user with no task due and none
\* completed that day, whose days_without_tasks stays below 3, adds exactly
\* 1 to days_without_tasks and leaves current_streak as it was.
C12_EmptyDay ==
    (Evaluated /\ call.due = 0 /\ call.completed = 0 /\ call.before_days + 1 < 3) =>
        /\ user.days_without_tasks = call.before_days + 1
        /\ user.current_streak = call.before_streak

\* C13: after every evaluation, days_without_tasks >= 3 implies
\* current_streak = 0; the third day in a row with no task due brings any
\* streak to 0, and the chest of the next redemption is then basic.
C13_IdleReset ==
    Evaluated =>
        /\ (user.days_without_tasks >= 3 => user.current_streak = 0)
        /\ (call.due = 0 /\ call.completed = 0 /\ call.before_days >= 2) =>
               /\ user.current_streak = 0
               /\ get_chest_type(user.current_streak) = "basic"

\* C14: a task of the user getting status done, due today or not, sets the
\* user's days_without_tasks to 0 in that same step.
C14_CompletionResetsIdleDays ==
    [][TaskCompleted => user'.days_without_tasks = 0]_vars

\* C15: evaluating a day again leaves (current_streak, days_without_tasks)
\* as the day's first evaluation left them, and however many tasks are
\* completed that day the streak ends at most 1 above where the day began.
C15_IdempotentPerDay ==
    day.evaluated =>
        /\ user.current_streak = day.once_streak
        /\ user.days_without_tasks = day.once_days
        /\ user.current_streak <= day.start_streak + 1

C15_Witness ==
    /\ call.fn = "update_streak" /\ ~call.first
    /\ day.evaluated
    /\ call.due >= 1 /\ call.completed >= 2
    /\ day.today >= 1

(***************************************************************************)
(* Claims about the assembled application (SpecApp)                        *)
(***************************************************************************)
\* C16: on the running application, open-chest, inventory and streak called
\* with no Authorization header or with a token that does not decode answer
\* 401, and no row changes and no redemption is started.
C16_Unauthenticated ==
    [][\A e \in RewardEndpoints, a \in {"missing", "invalid"}, t \in 1..(MaxTaskRows + 1) :
          rewards_request(e, 1, a, t) =>
              /\ resp'.status = 401
              /\ UNCHANGED <<db_users, db_tasks, req>>]_vars

(***************************************************************************)
(* Claims about the reward endpoints (Spec)                                *)
(***************************************************************************)
TaskOwnedBy(t, u) == t \in 1..Len(db_tasks) /\ db_tasks[t].user_id = u

Redeemed == resp.handler = "open_chest" /\ resp.status = 201

InFlight(r) == req[r].pc \in {"computed", "committed"}

\* C17: GET /rewards/streak answers next_chest_type = the chest of the
\* caller's current_streak, and when the next thing the caller does is a
\* redemption that succeeds, its chest_type is the one announced.
C17_AnnouncedTierUsed ==
    [][/\ \A a \in Authorizations :
             (get_streak(a) /\ resp'.status = 200) =>
                 resp'.next_chest_type =
                     get_chest_type(db_users[resp'.user_id].current_streak)
       /\ \A r \in Reqs, a \in Authorizations, t \in Users :
             (/\ resp.handler = "get_streak" /\ resp.status = 200
              /\ open_chest_begin(r, a, t)
              /\ req'[r].pc = "computed" /\ req'[r].user_id = resp.user_id) =>
                 req'[r].chest_type = resp.next_chest_type
       /\ \A r \in Reqs :
             open_chest_respond(r) =>
                 resp'.status = 201 /\ resp'.chest_type = req[r].chest_type]_vars

C17_Witness ==
    /\ resp.handler = "get_streak" /\ resp.status = 200
    /\ resp.current_streak = 13 /\ resp.next_chest_type = "epic"
    /\ \E r \in Reqs :
          /\ req[r].pc = "computed" /\ req[r].user_id = resp.user_id
          /\ req[r].chest_type = "epic"

\* C18: the chest of a redemption depends on current_streak alone: two
\* redemptions of users with equal current_streak get the same chest_type,
\* whatever their days_without_tasks and inventories, and with
\* current_streak = 14 it is exotic.
C18_TierFromStreakOnly ==
    /\ \A r1, r2 \in Reqs :
          (/\ InFlight(r1) /\ InFlight(r2)
           /\ db_users[req[r1].user_id].current_streak =
                  db_users[req[r2].user_id].current_streak) =>
              req[r1].chest_type = req[r2].chest_type
    /\ \A r \in Reqs :
          (/\ InFlight(r) /\ Redeemed
           /\ db_users[req[r].user_id].current_streak =
                  db_users[resp.user_id].current_streak) =>
              req[r].chest_type = resp.chest_type
    /\ \A r \in Reqs :
          (InFlight(r) /\ db_users[req[r].user_id].current_streak = 14) =>
              req[r].chest_type = "exotic"
    /\ (Redeemed /\ db_users[resp.user_id].current_streak = 14) =>
          resp.chest_type = "exotic"

C18_Witness ==
    /\ Redeemed /\ resp.user_id = 1 /\ resp.chest_type = "exotic"
    /\ db_users[1].current_streak = 14 /\ db_users[2].current_streak = 14
    /\ db_users[1].days_without_tasks # db_users[2].days_without_tasks
    /\ db_users[1].inventory # db_users[2].inventory
    /\ \E r \in Reqs :
          InFlight(r) /\ req[r].user_id = 2 /\ req[r].chest_type = "exotic"

\* the body of the 201 response that request r is about to send
OpenChestResponse(r) ==
    LET row == db_users[req[r].user_id]
    IN  [chest_type |-> req[r].chest_type, rarity |-> req[r].rarity,
         item_id |-> req[r].item_id, current_streak |-> row.current_streak,
         days_without_tasks |-> row.days_without_tasks,
         inventory_count |->
             inventory_count(session_attribute(req[r].inventory, row.inventory))]

\* the body of the last 201 response sent
LastOpenChestResponse ==
    [chest_type |-> resp.chest_type, rarity |-> resp.rarity, item_id |-> resp.item_id,
     current_streak |-> resp.current_streak,
     days_without_tasks |-> resp.days_without_tasks,
     inventory_count |-> resp.inventory_count]

\* C23: a redemption in which add_to_inventory returned True and one in which
\* it returned False never send the same response body.
C23_GrantDistinguishable ==
    \A r \in Reqs :
        (Redeemed /\ req[r].pc = "committed" /\ req[r].added # resp.added) =>
            OpenChestResponse(r) # LastOpenChestResponse

\* C6: open-chest by an authenticated caller on a task id that does not
\* exist or belongs to another user answers 404, and no row of users or
\* tasks changes (nor does a session stay open to change one later).
C6_NotFoundNoMutation ==
    [][\A r \in Reqs, a \in Authorizations, t \in 1..(MaxTaskRows + 1) :
          LET cu == get_current_user(a, db_users)
          IN  (open_chest_begin(r, a, t) /\ cu.status = 200 /\ ~TaskOwnedBy(t, cu.user_id)) =>
                  /\ resp'.handler = "open_chest" /\ resp'.status = 404
                  /\ UNCHANGED <<db_users, db_tasks, req>>]_vars

C6_Witness ==
    /\ resp.handler = "open_chest" /\ resp.status = 404
    /\ resp.user_id = 2 /\ resp.task_id = 1
    /\ TaskOwnedBy(1, 1)
    /\ db_users[1].exists /\ db_users[2].exists

\* C7: once open-chest has answered 201 with a newly granted item, the
\* stored inventory of the caller contains that item.
C7_GrantPersisted ==
    (Redeemed /\ resp.added) =>
        InList(resp.item_id, db_users[resp.user_id].inventory.list)

\* C8: the inventory_count of a 201 response of open-chest is the length of
\* the caller's stored inventory at that moment; the count of GET
\* /rewards/inventory is the length of the list it returns; and asked right
\* after a redemption of the same user it equals that redemption's count.
C8_CountsMatch ==
    [][/\ \A r \in Reqs :
             open_chest_respond(r) =>
                 resp'.inventory_count = Len(db_users'[resp'.user_id].inventory.list)
       /\ \A a \in Authorizations :
             (get_inventory(a) /\ resp'.status = 200) =>
                 /\ resp'.count = Len(resp'.inventory)
                 /\ resp'.inventory = db_users'[resp'.user_id].inventory.list
                 /\ (resp'.after_redeem => resp'.count = resp'.prev_count)]_vars

C8_Witness ==
    /\ resp.handler = "get_inventory" /\ resp.status = 200
    /\ resp.after_redeem
    /\ resp.count = 1 /\ resp.prev_count = 1

\* C9: the commit of a redemption never drops an item that another
\* redemption of the same user stored since this one read the user's row
\* (no lost update), and the stored inventory never holds an item twice.
C9_NoLostUpdate ==
    [][\A r \in Reqs :
          open_chest_commit(r) =>
              /\ \A i \in Range(db_users[req[r].user_id].inventory.list) :
                    InList(i, db_users'[req[r].user_id].inventory.list)
              /\ NoDuplicates(db_users'[req[r].user_id].inventory.list)]_vars

\* C19: the redemption of a user with current_streak = 0 and an empty stored
\* inventory, on a task the user owns, has chest_type basic, and its commit
\* leaves the stored inventory holding exactly the item of the response,
\* which is of the pool of the rarity of the response.
C19_FirstRedemption ==
    [][\A r \in Reqs :
          LET row == db_users[req[r].user_id]
          IN  (/\ open_chest_commit(r)
               /\ row.current_streak = 0
               /\ inventory_count(row.inventory) = 0) =>
                  /\ req[r].chest_type = "basic"
                  /\ req[r].added
                  /\ db_users'[req[r].user_id].inventory.list = <<req[r].item_id>>
                  /\ InList(req[r].item_id, PoolGet(req[r].rarity))]_vars

\* C25: signup writes a row with current_streak = 0, days_without_tasks = 0
\* and an empty inventory, and after every step of signup, task and reward
\* operations both counters of every user are non-negative.
C25_CountersStartAtZero ==
    [][/\ \A u \in Users :
             signup(u) =>
                 /\ db_users'[u].exists
                 /\ db_users'[u].current_streak = 0
                 /\ db_users'[u].days_without_tasks = 0
                 /\ db_users'[u].inventory = ListInv(<<>>)
       /\ \A u \in Users :
             /\ db_users'[u].current_streak \in Nat
             /\ db_users'[u].days_without_tasks \in Nat]_vars

C25_Witness ==
    /\ db_users[1] = NewUser
    /\ Redeemed /\ resp.user_id = 1
    /\ db_users[1].current_streak = 0 /\ db_users[1].days_without_tasks = 0
    /\ Len(db_tasks) >= 1

C29_Isolation ==
    [][/\ db_tasks' = db_tasks
       /\ \A u \in Users :
             db_users'[u] # db_users[u] =>
                /\ \E r \in Reqs : open_chest_commit(r) /\ req[r].user_id = u
                /\ db_users'[u] = [db_users[u] EXCEPT !.inventory = db_users'[u].inventory]
                /\ db_users'[u].current_streak = db_users[u].current_streak
                /\ db_users'[u].days_without_tasks = db_users[u].days_without_tasks]_vars

C29_Witness ==
    \E r \in Reqs :
        /\ req[r].pc = "committed"
        /\ req[r].user_id = 1
        /\ db_users[1].inventory = ListInv(<<req[r].item_id>>)
        /\ db_users[1].current_streak = MaxStreak
        /\ db_users[1].days_without_tasks = MaxDays
        /\ db_users[2].inventory = ListInv(<<"fish_blue">>)
        /\ \A t \in 1..Len(db_tasks) :
              db_tasks[t] = [user_id |-> t, status |-> "done", is_archived |-> TRUE]

\* C28: every step keeps each item of each stored inventory and lengthens the
\* inventory by at most 1; the commit of a redemption lengthens the caller's
\* stored inventory by exactly 1 when the redemption reports added = true
\* and by 0 when it reports added = false.
C28_InventoryOnlyGrows ==
    [][/\ \A u \in Users :
             db_users[u].exists =>
                /\ \A i \in Range(db_users[u].inventory.list) :
                      InList(i, db_users'[u].inventory.list)
                /\ Len(db_users'[u].inventory.list) <= Len(db_users[u].inventory.list) + 1
       /\ \A r \in Reqs :
             open_chest_commit(r) =>
                Len(db_users'[req[r].user_id].inventory.list) =
                    Len(db_users[req[r].user_id].inventory.list)
                        + (IF req[r].added THEN 1 ELSE 0)]_vars

====
